---- MODULE Spec2Model ----
(***************************************************************************)
(* PanopticMetric of stp3/metrics.py: the mask combiner, the pairwise      *)
(* overlap matrix, the matcher, the per-sequence identity map and the      *)
(* running statistics, as a state machine.                                 *)
(*                                                                         *)
(* A label map ([H, W] tensor) is the sequence of its pixels in row-major  *)
(* order, which is what view(-1) makes of it.  Tables indexed by combined  *)
(* label (conf, iou, pred_to_cls, target_to_cls) are functions on          *)
(* 0 .. n-1, as the tensors are.                                           *)
(***************************************************************************)
EXTENDS Integers, Sequences, FiniteSets

(* ------------------------------ bounds --------------------------------- *)
\* pixels of a frame handed to panoptic_metrics on its own
MaxPix == 2
\* pixels of a frame of the grids handed to update
SeqPix == 1
\* largest instance id in an instance map
MaxId == 2
\* frames one metric object processes over all its update calls
MaxFrames == 4

(* ------------------------ configuration -------------------------------- *)
\* PanopticMetric(n_classes=2): background and vehicle
n_classes == 2
\* default of the constructor
vehicles_id == 1
keys == {"iou", "true_positive", "false_positive", "false_negative"}

VARIABLES
    pc,                     \* position of the program
    temporally_consistent,  \* self.temporally_consistent
    iou, true_positive, false_positive, false_negative,   \* metric states
    gt_shape, pred_shape,   \* shapes <<b, s, h, w>> of the arguments of update
    b, t,                   \* loop variables of update
    gt_min_zero,            \* whether gt_instance.min() == 0
    zero_seen,              \* some pixel of gt_instance read so far is 0
    frames,                 \* frames processed by this object so far
    pred_segmentation, pred_instance, gt_segmentation, gt_instance,
                            \* arguments of the current panoptic_metrics call
    pred_to_cls, target_to_cls, conf, mapping,   \* its locals
    k,                      \* position of the loop over mapping
    result,                 \* its result dict
    unique_id_mapping,      \* the identity map of the current sequence
    last_match,             \* history: gt id -> predicted id of its latest
                            \* match in the sequence being read
    switched,               \* history: gt ids penalised in that sequence
    prev_match,             \* history: last_match as the sequence before
                            \* that one left it
    identical               \* history: every frame of this update call had
                            \* pred_instance = gt_instance

vars == <<pc, temporally_consistent, iou, true_positive, false_positive,
          false_negative, gt_shape, pred_shape, b, t, gt_min_zero, zero_seen,
          frames, pred_segmentation, pred_instance, gt_segmentation, gt_instance,
          pred_to_cls, target_to_cls, conf, mapping, k, result,
          unique_id_mapping, last_match, switched, prev_match, identical>>

(* ------------------------------ helpers -------------------------------- *)
RECURSIVE Fact(_)
Fact(n) == IF n <= 1 THEN 1 ELSE n * Fact(n - 1)

\* IoU values are kept as integers in units of 1/IouUnit: every union is at
\* most the number of pixels, so conf/union is a whole number of units.  The rounding of
\* the float32 division is not kept (it is below 2^-24 relative).
IouUnit == Fact(MaxPix) * Fact(SeqPix)

RECURSIVE SeqMax(_)
SeqMax(s) == IF s = <<>> THEN 0
             ELSE LET m == SeqMax(Tail(s)) IN IF Head(s) > m THEN Head(s) ELSE m

RECURSIVE SumTo(_, _)
\* sum of f(0) .. f(n-1)
SumTo(f, n) == IF n = 0 THEN 0 ELSE f[n - 1] + SumTo(f, n - 1)

Zeros == [c \in 0 .. n_classes - 1 |-> 0]
ZeroResult == [key \in keys |-> Zeros]
Empty == [x \in {} |-> 0]

(* --------------------------- combine_mask ------------------------------ *)
\* the combined mask returned by combine_mask
combine_mask(segmentation, instance, nc) ==
    LET instance_mask == [i \in DOMAIN instance |-> instance[i] > 0]
        shifted == [i \in DOMAIN instance |-> instance[i] - 1 + nc]
        segmentation_mask == [i \in DOMAIN segmentation |-> segmentation[i] < nc]
    IN  [i \in DOMAIN segmentation |->
            IF ~segmentation_mask[i] THEN 0
            ELSE (IF instance_mask[i] THEN shifted[i] ELSE segmentation[i]) + 1]

\* The tables instance_id_to_class combine_mask can return.  The indexed
\* assignment of line 238 writes one class per pixel of an instance; when
\* the pixels of an instance carry several classes the indices repeat and
\* which write survives is not defined, so each written class is possible.
instance_id_to_class(segmentation, instance, nc, n_all_things) ==
    LET written(id) == {segmentation[i] : i \in
                          {j \in DOMAIN instance : /\ instance[j] > 0
                                                   /\ segmentation[j] < nc
                                                   /\ instance[j] - 1 + nc = id}}
        several == {id \in nc .. n_all_things - 1 : Cardinality(written(id)) > 1}
        one(id) == IF id < nc THEN id
                   ELSE IF written(id) = {} THEN -1
                   ELSE CHOOSE c \in written(id) : TRUE
    IN  {[id \in 0 .. n_all_things - 1 |-> IF id \in several THEN w[id] ELSE one(id)] :
            w \in {v \in [several -> 0 .. nc - 1] : \A id \in several : v[id] \in written(id)}}

(* ----------------------- pairwise overlap engine ----------------------- *)
\* variant: the two maps exchanged in the joint index
JointIndexSwapped(prediction, target, n_things_and_void) ==
    [i \in DOMAIN prediction |-> target[i] + n_things_and_void * prediction[i]]

\* x = prediction + n_things_and_void * target
JointIndex(prediction, target, n_things_and_void) ==
    [i \in DOMAIN prediction |-> prediction[i] + n_things_and_void * target[i]]

\* torch.bincount(x, minlength): length max(minlength, max(x) + 1)
bincount(x, minlength) ==
    LET len == IF SeqMax(x) + 1 > minlength THEN SeqMax(x) + 1 ELSE minlength
    IN  [v \in 0 .. len - 1 |-> Cardinality({i \in DOMAIN x : x[i] = v})]

\* conf = bincount_2d.reshape((n, n))[1:, 1:]; rows are ground-truth labels
Confusion(prediction, target, n_all_things) ==
    LET n_things_and_void == n_all_things + 1
        bincount_2d == bincount(JointIndex(prediction, target, n_things_and_void),
                                n_things_and_void * n_things_and_void)
    IN  [i \in 0 .. n_all_things - 1 |->
            [j \in 0 .. n_all_things - 1 |->
                bincount_2d[(i + 1) * n_things_and_void + (j + 1)]]]

RowSum(cf, i) == SumTo(cf[i], Cardinality(DOMAIN cf))
ColSum(cf, j) == SumTo([i \in DOMAIN cf |-> cf[i][j]], Cardinality(DOMAIN cf))

\* union = conf.sum(0).unsqueeze(0) + conf.sum(1).unsqueeze(1) - conf
Union(cf, i, j) == ColSum(cf, j) + RowSum(cf, i) - cf[i][j]

\* variant: n + 1e-9 without rounding, as float64 or exact arithmetic give
AddEpsExact(n) == <<n, 1>>

\* n.float() + 1e-9 in float32, as the pair <<whole, count of 1e-9>>: a
\* float32 of magnitude 1 or more has a spacing above 1e-7 and absorbs the
\* 1e-9, zero does not.  Every count here is far below 2^24, so n.float()
\* is exact.
AddEps(n) == IF n = 0 THEN <<0, 1>> ELSE <<n, 0>>

\* variant: (num / den) >= 0.5
AtLeastHalf(num, den) ==
    \/ 2 * num[1] > den[1]
    \/ 2 * num[1] = den[1] /\ 2 * num[2] >= den[2]

\* (num / den) > 0.5 for num, den as AddEps gives them.  The float32
\* division rounds to nearest, 0.5 is a float32 and rounding is monotone,
\* so below 2^24 the quotient exceeds 0.5 exactly when 2 * num > den.
MoreThanHalf(num, den) ==
    \/ 2 * num[1] > den[1]
    \/ 2 * num[1] = den[1] /\ 2 * num[2] > den[2]

\* iou[i][j] of line 181, in units of 1/IouUnit
IouValue(cf, i, j) ==
    IF Union(cf, i, j) > 0
    THEN (AddEps(cf[i][j])[1] * IouUnit) \div AddEps(Union(cf, i, j))[1]
    ELSE 0

\* (iou > 0.5)[i][j]
OverHalf(cf, i, j) ==
    /\ Union(cf, i, j) > 0
    /\ MoreThanHalf(AddEps(cf[i][j]), AddEps(Union(cf, i, j)))

(* ------------------------------ matcher -------------------------------- *)
RECURSIVE RowMajor(_, _, _)
\* the pairs <<i, j>> of S with index i * n + j >= from, in increasing index
RowMajor(S, n, from) ==
    IF from >= n * n THEN <<>>
    ELSE LET p == <<from \div n, from % n>>
         IN  (IF p \in S THEN <<p>> ELSE <<>>) \o RowMajor(S, n, from + 1)

\* mapping of lines 183-186: nonzero() lists the pairs in row-major order
Matching(cf, pcls, tcls) ==
    LET n == Cardinality(DOMAIN cf)
        over == {p \in (0 .. n - 1) \X (0 .. n - 1) : OverHalf(cf, p[1], p[2])}
        is_matching == {p \in over : pcls[p[2]] = tcls[p[1]]}
    IN  RowMajor(is_matching, n, 0)

\* tp_mask of lines 187-188, as the set of its True entries
tp_mask == {mapping[i] : i \in DOMAIN mapping}


(* -------------------------- panoptic_metrics --------------------------- *)
\* n_all_things of line 167
NAllThings(pred_inst, gt_inst) ==
    LET a == SeqMax(pred_inst)
        g == SeqMax(gt_inst)
    IN  (IF a > g THEN a ELSE g) + n_classes

\* length of bincount_2d, compared with n_things_and_void ** 2 in line 175
BincountSize(prediction, target, n_all_things) ==
    Cardinality(DOMAIN bincount(JointIndex(prediction, target, n_all_things + 1),
                                (n_all_things + 1) * (n_all_things + 1)))

\* lines 159-188: the locals of a panoptic_metrics call on four label maps;
\* FALSE in ok when line 176 raises
Locals(pred_seg, pred_inst, gt_seg, gt_inst, pcls, tcls) ==
    LET n_all_things == NAllThings(pred_inst, gt_inst)
        prediction == combine_mask(pred_seg, pred_inst, n_classes)
        target == combine_mask(gt_seg, gt_inst, n_classes)
        cf == Confusion(prediction, target, n_all_things)
    IN  [ok |-> BincountSize(prediction, target, n_all_things)
                    = (n_all_things + 1) * (n_all_things + 1),
         conf |-> cf,
         mapping |-> Matching(cf, pcls, tcls)]

\* line 194: the identity switch test
IsSwitch(map, target_id, pred_id) ==
    target_id \in DOMAIN map /\ map[target_id] # pred_id

\* variant: an id already recorded is kept
RecordKeep(map, target_id, pred_id) ==
    IF target_id \in DOMAIN map THEN map
    ELSE [x \in DOMAIN map \cup {target_id} |-> IF x = target_id THEN pred_id ELSE map[x]]

\* lines 197 and 202: unique_id_mapping[target_id] = pred_id
Record(map, target_id, pred_id) ==
    [x \in DOMAIN map \cup {target_id} |-> IF x = target_id THEN pred_id ELSE map[x]]

Bump(res, key, cls, by) == [res EXCEPT ![key][cls] = @ + by]

\* variant: the penalty without line 196
PenaliseNoFp(res, tcls, pcls, target_id, pred_id) ==
    Bump(res, "false_negative", tcls[target_id], 1)

\* lines 195-196: the penalty of an identity switch
Penalise(res, tcls, pcls, target_id, pred_id) ==
    Bump(Bump(res, "false_negative", tcls[target_id], 1),
         "false_positive", pcls[pred_id], 1)

\* lines 200-201: a true positive and its IoU
Credit(res, cf, cls_id, target_id, pred_id) ==
    Bump(Bump(res, "true_positive", cls_id, 1),
         "iou", cls_id, IouValue(cf, target_id, pred_id))

\* lines 193-194: whether the pair takes the penalty branch
Penalised(map, pcls, target_id, pred_id) ==
    /\ temporally_consistent
    /\ pcls[pred_id] = vehicles_id
    /\ IsSwitch(map, target_id, pred_id)

\* variant: the slice of line 205 starts one column late
MissedTargetsShifted(cf, mask, tcls) ==
    LET n_all_things == Cardinality(DOMAIN cf)
    IN  {target_id \in n_classes .. n_all_things - 1 :
            /\ ~ \E j \in n_classes + 1 .. n_all_things - 1 : <<target_id, j>> \in mask
            /\ tcls[target_id] # -1}

\* lines 204-208: ground-truth things that count as a false negative
MissedTargets(cf, mask, tcls) ==
    LET n_all_things == Cardinality(DOMAIN cf)
    IN  {target_id \in n_classes .. n_all_things - 1 :
            /\ ~ \E j \in n_classes .. n_all_things - 1 : <<target_id, j>> \in mask
            /\ tcls[target_id] # -1}

\* variant: line 211 reads the row of pred_id instead of its column
SpuriousPredsSwapped(cf, mask, pcls) ==
    LET n_all_things == Cardinality(DOMAIN cf)
    IN  {pred_id \in n_classes .. n_all_things - 1 :
            /\ ~ \E i \in n_classes .. n_all_things - 1 : <<pred_id, i>> \in mask
            /\ pcls[pred_id] # -1
            /\ \E i \in 0 .. n_all_things - 1 : cf[i][pred_id] > 0}

\* lines 210-214: predicted things that count as a false positive
SpuriousPreds(cf, mask, pcls) ==
    LET n_all_things == Cardinality(DOMAIN cf)
    IN  {pred_id \in n_classes .. n_all_things - 1 :
            /\ ~ \E i \in n_classes .. n_all_things - 1 : <<i, pred_id>> \in mask
            /\ pcls[pred_id] # -1
            /\ \E i \in 0 .. n_all_things - 1 : cf[i][pred_id] > 0}

\* lines 204-216: the result after both loops over the unmatched things
Tally(res, cf, mask, pcls, tcls) ==
    LET fn == MissedTargets(cf, mask, tcls)
        fp == SpuriousPreds(cf, mask, pcls)
    IN  [res EXCEPT
            !["false_negative"] =
                [c \in DOMAIN @ |-> @[c] + Cardinality({g \in fn : tcls[g] = c})],
            !["false_positive"] =
                [c \in DOMAIN @ |-> @[c] + Cardinality({p \in fp : pcls[p] = c})]]

\* the arguments and locals of panoptic_metrics go out of scope
Leave ==
    /\ pred_segmentation' = <<>> /\ pred_instance' = <<>>
    /\ gt_segmentation' = <<>> /\ gt_instance' = <<>>
    /\ pred_to_cls' = Empty /\ target_to_cls' = Empty
    /\ conf' = Empty /\ mapping' = <<>> /\ k' = 1
    /\ result' = ZeroResult

\* lines 159-188 of a call on the four maps: the locals are set, the result
\* is zeroed and the loop over mapping is about to start
Enter(pred_seg, pred_inst, gt_seg, gt_inst, map) ==
    \E pcls \in instance_id_to_class(pred_seg, pred_inst, n_classes,
                                     NAllThings(pred_inst, gt_inst)),
       tcls \in instance_id_to_class(gt_seg, gt_inst, n_classes,
                                     NAllThings(pred_inst, gt_inst)) :
        LET loc == Locals(pred_seg, pred_inst, gt_seg, gt_inst, pcls, tcls)
        IN  /\ pred_segmentation' = pred_seg
            /\ pred_instance' = pred_inst
            /\ gt_segmentation' = gt_seg
            /\ gt_instance' = gt_inst
            /\ pred_to_cls' = pcls
            /\ target_to_cls' = tcls
            /\ conf' = loc.conf
            /\ mapping' = loc.mapping
            /\ k' = 1
            /\ result' = ZeroResult
            /\ unique_id_mapping' = map
            /\ pc' = IF loc.ok THEN "match" ELSE "aborted"

\* One iteration of the loop of lines 190-202.
MatchStep ==
    /\ pc = "match"
    /\ k <= Len(mapping)
    /\ LET target_id == mapping[k][1]
           pred_id == mapping[k][2]
           cls_id == pred_to_cls[pred_id]
       IN  /\ IF Penalised(unique_id_mapping, pred_to_cls, target_id, pred_id)
              THEN /\ result' = Penalise(result, target_to_cls, pred_to_cls,
                                         target_id, pred_id)
                   /\ switched' = switched \cup {target_id}
              ELSE /\ result' = Credit(result, conf, cls_id, target_id, pred_id)
                   /\ switched' = switched
           /\ unique_id_mapping' = Record(unique_id_mapping, target_id, pred_id)
           /\ last_match' = [x \in DOMAIN last_match \cup {target_id} |->
                                IF x = target_id THEN pred_id ELSE last_match[x]]
    /\ k' = k + 1
    /\ UNCHANGED <<pc, temporally_consistent, iou, true_positive, false_positive,
                   false_negative, gt_shape, pred_shape, b, t, gt_min_zero,
                   zero_seen, frames, pred_segmentation, pred_instance,
                   gt_segmentation, gt_instance, pred_to_cls, target_to_cls,
                   conf, mapping, prev_match, identical>>

(* ------------------------------- update -------------------------------- *)
\* the [H, W] shape of the frames of gt_instance: one row of SeqPix pixels
FrameShape == <<1, SeqPix>>

\* shapes of gt_instance that fit in the frames left
GtShapes(done) ==
    {<<nb, ns, FrameShape[1], FrameShape[2]>> :
        nb \in 1 .. MaxFrames, ns \in 1 .. MaxFrames} \cap
    {s \in Nat \X Nat \X Nat \X Nat : s[1] * s[2] <= MaxFrames - done}

\* shapes of pred_instance tried against a gt_instance of shape s: that of
\* gt_instance, or one that differs from it by one in one dimension
PredShapes(s) ==
    {s} \cup
    {p \in {[s EXCEPT ![d] = @ + e] : d \in 1 .. 4, e \in {-1, 1}} :
        \A d \in 1 .. 4 : p[d] >= 1}

InstanceMaps(n) == [1 .. n -> 0 .. MaxId]

\* (instance > 0).long() of lines 117-118
Segmentation(instance) == [i \in DOMAIN instance |-> IF instance[i] > 0 THEN 1 ELSE 0]

\* variant: the identity map is carried over from sequence to sequence
KeepMapping(step, map) == map

\* line 121: each batch element starts with an empty identity map
FreshMapping(step, map) == IF step = 0 THEN Empty ELSE map

Add(acc, res) == [c \in DOMAIN acc |-> acc[c] + res[c]]

Init ==
    /\ pc = "idle"
    /\ temporally_consistent \in BOOLEAN
    /\ iou = Zeros /\ true_positive = Zeros
    /\ false_positive = Zeros /\ false_negative = Zeros
    /\ gt_shape = <<>> /\ pred_shape = <<>>
    /\ b = 0 /\ t = 0
    /\ gt_min_zero = TRUE /\ zero_seen = FALSE
    /\ frames = 0
    /\ pred_segmentation = <<>> /\ pred_instance = <<>>
    /\ gt_segmentation = <<>> /\ gt_instance = <<>>
    /\ pred_to_cls = Empty /\ target_to_cls = Empty
    /\ conf = Empty /\ mapping = <<>> /\ k = 1
    /\ result = ZeroResult
    /\ unique_id_mapping = Empty
    /\ last_match = Empty /\ switched = {} /\ prev_match = Empty
    /\ identical = TRUE

\* lines 114-118: update is called on a pair of grids.  The grids are read
\* frame by frame as the loops reach them; only their shapes and the outcome
\* of gt_instance.min() == 0 are fixed here, and ReadFrame keeps the frames
\* it draws consistent with that outcome.
UpdateCall ==
    /\ pc \in {"idle", "returned", "aborted"}
    /\ frames < MaxFrames
    /\ \E gs \in GtShapes(frames) : \E ps \in PredShapes(gs) : \E mz \in BOOLEAN :
        /\ gt_shape' = gs
        /\ pred_shape' = ps
        /\ gt_min_zero' = mz
        /\ pc' = IF mz THEN "loop" ELSE "aborted"
    /\ b' = 0 /\ t' = 0
    /\ zero_seen' = FALSE
    /\ identical' = TRUE
    /\ UNCHANGED <<temporally_consistent, iou, true_positive, false_positive,
                   false_negative, frames, pred_segmentation, pred_instance,
                   gt_segmentation, gt_instance, pred_to_cls, target_to_cls,
                   conf, mapping, k, result, unique_id_mapping, last_match,
                   switched, prev_match>>

LastFrame == b = gt_shape[1] - 1 /\ t = gt_shape[2] - 1

\* lines 120-129 and, inside panoptic_metrics, 159-188: frame [b, t] of both
\* grids is indexed and handed to panoptic_metrics.
ReadFrame ==
    /\ pc = "loop"
    /\ IF b >= pred_shape[1] \/ t >= pred_shape[2]
            \* pred_segmentation[b, t] is out of range
       THEN /\ pc' = "aborted"
            /\ unique_id_mapping' = Empty
            /\ UNCHANGED <<pred_segmentation, pred_instance, gt_segmentation,
                           gt_instance, pred_to_cls, target_to_cls, conf, mapping,
                           k, result, last_match, switched, prev_match,
                           zero_seen, identical>>
       ELSE IF <<pred_shape[3], pred_shape[4]>> # <<gt_shape[3], gt_shape[4]>>
            \* the assert of line 164
       THEN /\ pc' = "aborted"
            /\ unique_id_mapping' = Empty
            /\ UNCHANGED <<pred_segmentation, pred_instance, gt_segmentation,
                           gt_instance, pred_to_cls, target_to_cls, conf, mapping,
                           k, result, last_match, switched, prev_match,
                           zero_seen, identical>>
       ELSE \E gt_inst \in InstanceMaps(gt_shape[3] * gt_shape[4]),
               pred_inst \in InstanceMaps(gt_shape[3] * gt_shape[4]) :
                LET zero == \E i \in DOMAIN gt_inst : gt_inst[i] = 0
                IN  /\ LastFrame /\ ~zero_seen => zero
                    /\ zero_seen' = (zero_seen \/ zero)
                    /\ identical' = (identical /\ pred_inst = gt_inst)
                    /\ last_match' = IF t = 0 THEN Empty ELSE last_match
                    /\ switched' = IF t = 0 THEN {} ELSE switched
                    /\ prev_match' = IF t = 0 THEN last_match ELSE prev_match
                    /\ Enter(Segmentation(pred_inst), pred_inst,
                             Segmentation(gt_inst), gt_inst,
                             FreshMapping(t, unique_id_mapping))
    /\ UNCHANGED <<temporally_consistent, iou, true_positive, false_positive,
                   false_negative, gt_shape, pred_shape, b, t, gt_min_zero, frames>>

\* lines 204-216, the return of panoptic_metrics, lines 131-134 and the step
\* of the loops of lines 120 and 122
FrameDone ==
    /\ pc = "match"
    /\ k > Len(mapping)
    /\ LET final == Tally(result, conf, tp_mask, pred_to_cls, target_to_cls)
       IN  /\ iou' = Add(iou, final["iou"])
           /\ true_positive' = Add(true_positive, final["true_positive"])
           /\ false_positive' = Add(false_positive, final["false_positive"])
           /\ false_negative' = Add(false_negative, final["false_negative"])
    /\ frames' = frames + 1
    /\ Leave
    /\ IF t + 1 < gt_shape[2]
       THEN /\ t' = t + 1 /\ b' = b /\ pc' = "loop"
            /\ UNCHANGED unique_id_mapping
       ELSE /\ IF b + 1 < gt_shape[1]
               THEN /\ t' = 0 /\ b' = b + 1 /\ pc' = "loop"
                    /\ UNCHANGED unique_id_mapping
               ELSE \* update returns and its locals go out of scope
                    /\ t' = t /\ b' = b /\ pc' = "returned"
                    /\ unique_id_mapping' = Empty
    /\ UNCHANGED <<temporally_consistent, gt_shape, pred_shape, gt_min_zero,
                   zero_seen, last_match, switched, prev_match, identical>>

Next == UpdateCall \/ ReadFrame \/ MatchStep \/ FrameDone

Spec == Init /\ [][Next]_vars


(* -------------- panoptic_metrics called on its own --------------------- *)
\* semantic maps: a class, or n_classes for void
SemanticMaps(n) == [1 .. n -> 0 .. n_classes]

\* The four label maps of one call are drawn here; the identity map passed
\* in is empty and the metric has its default configuration.
InitPM ==
    /\ pc = "call"
    /\ temporally_consistent = TRUE
    /\ iou = Zeros /\ true_positive = Zeros
    /\ false_positive = Zeros /\ false_negative = Zeros
    /\ gt_shape = <<>> /\ pred_shape = <<>>
    /\ b = 0 /\ t = 0
    /\ gt_min_zero = TRUE /\ zero_seen = FALSE
    /\ frames = 0
    /\ pred_segmentation \in SemanticMaps(MaxPix)
    /\ pred_instance \in InstanceMaps(MaxPix)
    /\ gt_segmentation \in SemanticMaps(MaxPix)
    /\ gt_instance \in InstanceMaps(MaxPix)
    /\ pred_to_cls = Empty /\ target_to_cls = Empty
    /\ conf = Empty /\ mapping = <<>> /\ k = 1
    /\ result = ZeroResult
    /\ unique_id_mapping = Empty
    /\ last_match = Empty /\ switched = {} /\ prev_match = Empty
    /\ identical = TRUE

\* lines 159-188
PMEnter ==
    /\ pc = "call"
    /\ Enter(pred_segmentation, pred_instance, gt_segmentation, gt_instance,
             unique_id_mapping)
    /\ UNCHANGED <<temporally_consistent, iou, true_positive, false_positive,
                   false_negative, gt_shape, pred_shape, b, t, gt_min_zero,
                   zero_seen, frames, last_match, switched, prev_match,
                   identical>>

\* lines 204-216: the loops over the unmatched things and the return
PMReturn ==
    /\ pc = "match"
    /\ k > Len(mapping)
    /\ result' = Tally(result, conf, tp_mask, pred_to_cls, target_to_cls)
    /\ pc' = "done"
    /\ UNCHANGED <<temporally_consistent, iou, true_positive, false_positive,
                   false_negative, gt_shape, pred_shape, b, t, gt_min_zero,
                   zero_seen, frames, pred_segmentation, pred_instance,
                   gt_segmentation, gt_instance, pred_to_cls, target_to_cls,
                   conf, mapping, k, unique_id_mapping, last_match, switched,
                   prev_match, identical>>

NextPM == PMEnter \/ MatchStep \/ PMReturn

SpecPM == InitPM /\ [][NextPM]_vars


(* ============================ properties =============================== *)
\* the combined label maps of the current call
Prediction == combine_mask(pred_segmentation, pred_instance, n_classes)
Target == combine_mask(gt_segmentation, gt_instance, n_classes)

\* indices of conf; index l stands for combined label l + 1
Labels == DOMAIN conf
Things == {l \in Labels : l >= n_classes}

\* pixels of a label, and of a label where the other map is not void
GtArea(g) == Cardinality({i \in DOMAIN Target : Target[i] = g + 1})
PredArea(p) == Cardinality({i \in DOMAIN Prediction : Prediction[i] = p + 1})
GtSeen(g) ==
    Cardinality({i \in DOMAIN Target : Target[i] = g + 1 /\ Prediction[i] # 0})
PredSeen(p) ==
    Cardinality({i \in DOMAIN Target : Prediction[i] = p + 1 /\ Target[i] # 0})

\* intersection and union of a ground-truth and a predicted label, counted
\* on the pixels that are void in neither map
Inter(g, p) ==
    Cardinality({i \in DOMAIN Target : Target[i] = g + 1 /\ Prediction[i] = p + 1})
Uni(g, p) ==
    Cardinality({i \in DOMAIN Target :
        \/ Target[i] = g + 1 /\ Prediction[i] # 0
        \/ Prediction[i] = p + 1 /\ Target[i] # 0})

InCall == pc \in {"match", "done"}

\* MatchStep is taken on the pair mapping[k]
Stepping == pc = "match" /\ k <= Len(mapping) /\ k' = k + 1
CurTarget == mapping[k][1]
CurPred == mapping[k][2]
\* panoptic_metrics returns to update
Returning == pc = "match" /\ k > Len(mapping) /\ frames' = frames + 1

\* IoU of two instances of a frame of update, from their pixels
PixelIou(g, p) ==
    LET gid == g - n_classes + 1
        pid == p - n_classes + 1
        both == {i \in DOMAIN gt_instance : gt_instance[i] = gid /\ pred_instance[i] = pid}
        any == {i \in DOMAIN gt_instance : gt_instance[i] = gid \/ pred_instance[i] = pid}
    IN  (Cardinality(both) * IouUnit) \div Cardinality(any)

InstanceIds(m) == {m[i] : i \in DOMAIN m} \ {0}

(* C1: with temporal checking on, when a ground-truth instance of the      *)
(* trackable class whose latest match in the sequence was predicted id A   *)
(* is matched to another predicted id B, the step adds one false negative  *)
(* and one false positive to that class, no true positive and no IoU, and  *)
(* the identity map then records B for the instance.                       *)
C1_Switch ==
    [][(/\ Stepping
        /\ temporally_consistent
        /\ target_to_cls[CurTarget] = vehicles_id
        /\ CurTarget \in DOMAIN last_match
        /\ last_match[CurTarget] # CurPred)
       => /\ result' = [result EXCEPT !["false_negative"][vehicles_id] = @ + 1,
                                      !["false_positive"][vehicles_id] = @ + 1]
          /\ unique_id_mapping'[CurTarget] = CurPred]_vars

C1_Witness ==
    /\ pc = "match" /\ temporally_consistent /\ t = 1 /\ k > 1
    /\ mapping[k - 1][1] \in switched
    /\ target_to_cls[mapping[k - 1][1]] = vehicles_id
    /\ result["false_negative"][vehicles_id] = 1
    /\ result["false_positive"][vehicles_id] = 1
    /\ result["true_positive"][vehicles_id] = 0
    /\ unique_id_mapping[mapping[k - 1][1]] = mapping[k - 1][2]

(* C2: a switch is penalised at the transition only.  A trackable instance *)
(* that was penalised earlier in the sequence and is matched again to the  *)
(* predicted id of its latest match gets a true positive with its IoU and  *)
(* no penalty; a step adds a false negative or false positive only when    *)
(* the predicted id differs from the one of the instance's latest match.   *)
C2_OnlyTransition ==
    [][(Stepping /\ temporally_consistent /\ pred_to_cls[CurPred] = vehicles_id)
       => /\ (CurTarget \in switched /\ last_match[CurTarget] = CurPred)
                => result' = [result EXCEPT
                                !["true_positive"][vehicles_id] = @ + 1,
                                !["iou"][vehicles_id] = @ + PixelIou(CurTarget, CurPred)]
          /\ (\/ result'["false_negative"] # result["false_negative"]
              \/ result'["false_positive"] # result["false_positive"])
                => /\ CurTarget \in DOMAIN last_match
                   /\ last_match[CurTarget] # CurPred]_vars

C2_Witness ==
    /\ pc = "match" /\ temporally_consistent /\ t = 2 /\ k > 1
    /\ mapping[k - 1][1] \in switched
    /\ result["true_positive"][vehicles_id] = 1
    /\ result["iou"][vehicles_id] = IouUnit
    /\ result["false_negative"][vehicles_id] = 0
    /\ result["false_positive"][vehicles_id] = 0

(* C3: the identity map lives for one sequence.  While a frame is matched  *)
(* the map holds exactly the matches recorded earlier in the same sequence *)
(* of the same update call, and no match of the first timestep of a        *)
(* sequence is penalised.                                                  *)
C3_PerSequence ==
    pc = "match" => /\ unique_id_mapping = last_match
                    /\ t = 0 => switched = {}

C3_Witness ==
    /\ pc = "match" /\ temporally_consistent /\ t = 0 /\ b = 1 /\ k > 1
    /\ mapping[k - 1][1] \in Things
    /\ mapping[k - 1][1] \in DOMAIN prev_match
    /\ prev_match[mapping[k - 1][1]] # mapping[k - 1][2]
    /\ result["true_positive"][vehicles_id] = 1

(* C4: the threshold is strict.  A ground-truth and a predicted label      *)
(* whose intersection is exactly half of their union are not in the match  *)
(* set, and a pair of the same class whose intersection is more than half  *)
(* of their union is.                                                      *)
C4_StrictThreshold ==
    InCall => \A g \in Labels, p \in Labels :
        /\ (Uni(g, p) > 0 /\ 2 * Inter(g, p) = Uni(g, p)) => <<g, p>> \notin tp_mask
        /\ (2 * Inter(g, p) > Uni(g, p) /\ pred_to_cls[p] = target_to_cls[g])
                => <<g, p>> \in tp_mask

C4_Witness ==
    /\ pc = "done"
    /\ \E g \in Things, p \in Things :
        /\ Uni(g, p) > 0 /\ 2 * Inter(g, p) = Uni(g, p)
        /\ pred_to_cls[p] = target_to_cls[g]
        /\ <<g, p>> \notin tp_mask

(* C5: the match set is one-to-one: no ground-truth label is in two        *)
(* matched pairs and no predicted label is.                                *)
C5_OneToOne ==
    InCall => \A m1 \in tp_mask, m2 \in tp_mask :
        (m1[1] = m2[1] \/ m1[2] = m2[2]) => m1 = m2

C5_Witness ==
    /\ pc = "done"
    /\ Cardinality({m \in tp_mask : m[1] \in Things /\ m[2] \in Things}) >= 2

(* C6: after a call with an empty identity map, the false positives of a   *)
(* class are the predicted thing labels of the class that have no match    *)
(* and share a pixel with a ground-truth label: a matched predicted thing  *)
(* label adds none, and one without overlap adds none.                     *)
C6_FalsePositives ==
    pc = "done" => \A c \in 0 .. n_classes - 1 :
        result["false_positive"][c] =
            Cardinality({p \in Things :
                /\ pred_to_cls[p] = c
                /\ ~ \E m \in tp_mask : m[2] = p
                /\ PredSeen(p) > 0})

(* C7: an update call that returns normally had grids of one shape and a   *)
(* ground-truth minimum of 0; every other call aborts.                     *)
C7_PreconditionsAbort ==
    pc = "returned" => pred_shape = gt_shape /\ gt_min_zero

(* C8 as stated: the row of a ground-truth label sums to the label's       *)
(* pixel count in the ground-truth map, the column of a predicted label to *)
(* its pixel count in the predicted map.                                   *)
C8_AreaSums ==
    InCall => \A l \in Labels : /\ RowSum(conf, l) = GtArea(l)
                                /\ ColSum(conf, l) = PredArea(l)

(* C8 amended: the row of a ground-truth label sums to the number of the   *)
(* label's pixels that are not void in the predicted map, the column of a  *)
(* predicted label to the number of its pixels that are not void in the    *)
(* ground-truth map.                                                       *)
C8_SeenAreaSums ==
    InCall => \A l \in Labels : /\ RowSum(conf, l) = GtSeen(l)
                                /\ ColSum(conf, l) = PredSeen(l)

C8_Witness ==
    /\ pc = "done"
    /\ \E l \in Things : GtSeen(l) > 0 /\ GtSeen(l) < GtArea(l)

(* C9: while every frame of an update call has the predicted grid equal to *)
(* the ground-truth grid, each frame matches every label present to itself *)
(* with IoU 1 and leaves false_positive and false_negative as they were.   *)
C9_SelfMatch ==
    [][(Returning /\ identical)
       => LET present == {IF gt_instance[i] = 0 THEN 0
                          ELSE gt_instance[i] - 1 + n_classes : i \in DOMAIN gt_instance}
              count(c) == Cardinality({l \in present : target_to_cls[l] = c})
          IN  /\ tp_mask = {<<l, l>> : l \in present}
              /\ false_positive' = false_positive
              /\ false_negative' = false_negative
              /\ \A c \in 0 .. n_classes - 1 :
                    /\ true_positive'[c] = true_positive[c] + count(c)
                    /\ iou'[c] = iou[c] + count(c) * IouUnit]_vars

C9_Witness ==
    /\ pc = "returned" /\ identical /\ temporally_consistent
    /\ gt_shape[2] >= 2
    /\ frames = gt_shape[1] * gt_shape[2]
    /\ true_positive[vehicles_id] >= 2
    /\ false_positive = Zeros /\ false_negative = Zeros

(* C10: for every frame update processes, the frame adds to class 1 as     *)
(* many true positives plus false negatives as the frame has ground-truth  *)
(* instance ids, and as many true positives plus false positives as it has *)
(* predicted instance ids; class 0 gets no false positive or negative.     *)
C10_Conservation ==
    [][Returning
       => LET tp == true_positive'[1] - true_positive[1]
              fp == false_positive'[1] - false_positive[1]
              fn == false_negative'[1] - false_negative[1]
          IN  /\ tp + fn = Cardinality(InstanceIds(gt_instance))
              /\ tp + fp = Cardinality(InstanceIds(pred_instance))
              /\ false_positive'[0] = false_positive[0]
              /\ false_negative'[0] = false_negative[0]]_vars

C10_Witness ==
    /\ pc \in {"loop", "returned"} /\ temporally_consistent
    /\ frames = 2
    /\ true_positive[1] = 1 /\ false_positive[1] = 1 /\ false_negative[1] = 1

====
